---- MODULE Spec2Model ----
(***************************************************************************)
(* Model of the image pull / assemble / isolate / launch pipeline of       *)
(* src/app/main.go.  One run of main() is a state machine whose position   *)
(* is pc; the network, the tar subprocess, the chroot syscall and the      *)
(* launched command are the environment, and every outcome they can hand   *)
(* back to the code is an input chosen with \E.                            *)
(***************************************************************************)
EXTENDS Integers, Sequences, FiniteSets, TLC

\* ------------------------------------------------------------------ bounds
MaxLayers == 3
MaxExitStatus == 3

\* --------------------------------------------------------- program constants
StatusOK == 200
PrefixLen == 7
PanicExit == 2

\* ------------------------------------------------------------ environment
\* Digests as the registry writes them: "sha256:" followed by the hex part
\* (one symbol stands for the 64 hex digits).
AlgPrefix == <<"s", "h", "a", "2", "5", "6", ":">>

Hexes == {"a", "b", "c"}

Digests == {AlgPrefix \o <<h>> : h \in Hexes}

Paths == {"/bin/foo", "/etc/conf"}

NoContent == "none"

\* The files the archive of a blob carries; every file of blob h has content h.
LayerPaths(h) ==
  CASE h = "a" -> {"/bin/foo"}
    [] h = "b" -> {"/bin/foo", "/etc/conf"}
    [] h = "c" -> {"/etc/conf"}
    [] OTHER -> {}

HexOf(digest) == digest[Len(digest)]

Statuses == {StatusOK, 401, 503}

ExitStatuses == 0 .. MaxExitStatus

\* ------------------------------------------------------------------ errors
NilErr == [kind |-> "nil", code |-> 0]

OtherErr == [kind |-> "error", code |-> 0]

ExitErr(c) == [kind |-> "ExitError", code |-> c]

\* How a subprocess run by cmd.Run can end.
CmdOutcomes ==
  {[how |-> "nostart", status |-> 0], [how |-> "signaled", status |-> 0]}
    \cup {[how |-> "exited", status |-> s] : s \in ExitStatuses}

\* (*exec.ExitError).ExitCode(): the exit status, or -1 for a signalled child.
\* cmd.Wait returns nil for status 0, *exec.ExitError otherwise.
WaitErr(o) ==
  IF o.how = "signaled" THEN ExitErr(-1)
  ELSE IF o.status = 0 THEN NilErr
  ELSE ExitErr(o.status)

\* cmd.Run: a command that cannot be started yields an error that is not an
\* *exec.ExitError.
Run(o) == IF o.how = "nostart" THEN OtherErr ELSE WaitErr(o)

\* os.Exit(code): the status the parent of this process sees.
ExitStatusOf(code) == code % 256

handleErrorAlwaysOne(err) == 1

\* handleError: the code passed to os.Exit.
handleError(err) ==
  IF err.kind = "ExitError" THEN err.code ELSE 1

\* ------------------------------------------------------------ HTTP clients
NoResp == [answered |-> FALSE, status |-> 0, body |-> "none"]

TokenResponses ==
  {[answered |-> FALSE, status |-> 0, body |-> "timeout"]}
    \cup [answered : {TRUE}, status : Statuses,
          body : {"malformed", "noTokenField", "token"}]

getTokenIgnoreStatus(resp) ==
  IF ~resp.answered THEN [token |-> "", err |-> OtherErr]
  ELSE IF resp.body = "malformed" THEN [token |-> "", err |-> OtherErr]
  ELSE [token |-> IF resp.body = "token" THEN "tok" ELSE "", err |-> NilErr]

\* getToken: (token.Token, err).  A JSON object without a "token" member
\* decodes without error and leaves Token at its zero value "".
getToken(resp) ==
  IF ~resp.answered THEN [token |-> "", err |-> OtherErr]
  ELSE IF resp.status # StatusOK THEN [token |-> "", err |-> OtherErr]
  ELSE IF resp.body = "malformed" THEN [token |-> "", err |-> OtherErr]
  ELSE [token |-> IF resp.body = "token" THEN "tok" ELSE "", err |-> NilErr]

LayerLists == UNION {[1 .. n -> Digests] : n \in 0 .. MaxLayers}

NilManifest == [isNil |-> TRUE, Layers |-> <<>>]

ManifestResponses ==
  {[answered |-> FALSE, status |-> 0, body |-> "timeout", Layers |-> <<>>]}
    \cup [answered : {TRUE}, status : Statuses,
          body : {"malformed", "null"}, Layers : {<<>>}]
    \cup [answered : {TRUE}, status : Statuses,
          body : {"object"}, Layers : LayerLists]

\* getManifest: (manifest, err).  The JSON document null decodes without
\* error and leaves the *ManifestResponse nil.
getManifest(resp) ==
  IF ~resp.answered THEN [manifest |-> NilManifest, err |-> OtherErr]
  ELSE IF resp.status # StatusOK THEN [manifest |-> NilManifest, err |-> OtherErr]
  ELSE IF resp.body = "malformed" THEN [manifest |-> NilManifest, err |-> OtherErr]
  ELSE IF resp.body = "null" THEN [manifest |-> NilManifest, err |-> NilErr]
  ELSE [manifest |-> [isNil |-> FALSE, Layers |-> resp.Layers], err |-> NilErr]

\* fmt.Sprintf("%s.tar.gz", digest[7:])
FileName(digest) == SubSeq(digest, PrefixLen + 1, Len(digest)) \o <<".tar.gz">>

FileNames == {FileName(d) : d \in Digests}

NoFile == [exists |-> FALSE, body |-> NoContent]

LayerOutcomes == {"timeout", "non200", "createFail", "copyFail", "ok"}

\* pullLayers: (layerFile.Name(), err)
pullLayers(digest, outcome) ==
  IF outcome = "ok" THEN [name |-> FileName(digest), err |-> NilErr]
  ELSE [name |-> <<>>, err |-> OtherErr]

\* The working directory after pullLayers: os.Create truncates or creates the
\* file, io.Copy fills it; a failed copy leaves the truncated file behind.
saveLayerToFile(fs, digest, outcome) ==
  IF outcome = "ok"
    THEN [fs EXCEPT ![FileName(digest)] = [exists |-> TRUE, body |-> HexOf(digest)]]
  ELSE IF outcome = "copyFail"
    THEN [fs EXCEPT ![FileName(digest)] = [exists |-> TRUE, body |-> "truncated"]]
  ELSE fs

UntarKeepOld(t, body) ==
  [p \in Paths |-> IF p \in LayerPaths(body) /\ t[p] = NoContent THEN body ELSE t[p]]

\* tar -xzf src -C dest: every file of the archive replaces the file of the
\* same path in dest.
Untar(t, body) ==
  [p \in Paths |-> IF p \in LayerPaths(body) THEN body ELSE t[p]]

\* extractTar: the error of cmd.Run, unchanged.
extractTar(o) == Run(o)

ChrootOutcomes == {"ok", "EPERM"}

createFileSystemAlwaysNil(outcome) == NilErr

createFileSystemAlwaysErr(outcome) == OtherErr

\* createFileSystem: the error of syscall.Chroot.
createFileSystem(outcome) == IF outcome = "ok" THEN NilErr ELSE OtherErr

\* Whether the name held in dir still reaches the directory MkdirTemp made:
\* an absolute name is looked up under the new root after chroot, a relative
\* one (relative $TMPDIR) from the unchanged working directory.
Resolves(isChrooted, relative) == ~isChrooted \/ relative

\* defer os.RemoveAll(dir), run when main returns or panics.
RemoveAll(exists, isChrooted, relative) ==
  IF Resolves(isChrooted, relative) THEN FALSE ELSE exists

NextAfterManifest(ls) == IF Len(ls) = 0 THEN "createFileSystem" ELSE "pullLayers"

NextAfterPullEager(names, ls) == "extractTar"

\* First loop of main: one pullLayers per manifest layer, then the second loop.
NextAfterPull(names, ls) ==
  IF Len(names) = Len(ls) THEN "extractTar" ELSE "pullLayers"

\* Second loop of main: one extractTar per collected name, then the chroot.
NextAfterExtract(done, names) ==
  IF done = Len(names) THEN "createFileSystem" ELSE "extractTar"

\* ------------------------------------------------------------------ state
VARIABLES
  pc,             \* position in main
  tmpRelative,    \* os.TempDir() is a relative path
  dir,            \* the name MkdirTemp returned, "" before
  dirExists,      \* the temporary directory exists on the host
  tokenResp,      \* the answer of the token endpoint
  token,          \* the bearer token
  manifest,       \* *ManifestResponse
  layerNames,     \* names collected by the first loop
  files,          \* layer archives in the working directory
  tree,           \* content of the temporary directory
  chrooted,       \* syscall.Chroot has succeeded
  childStatus,    \* exit status of the launched command, -1 if none
  exitStatus,     \* exit status of this process, -1 while running
  failedAt,       \* the stage whose error went to handleError
  manifestReqs,   \* bearer tokens of the manifest requests sent
  downloads,      \* digests of the blob requests sent
  extractLog,     \* the extractTar invocations
  chrootCalls,    \* number of syscall.Chroot calls
  launches        \* number of times the command was started

vars == <<pc, tmpRelative, dir, dirExists, tokenResp, token, manifest,
          layerNames, files, tree, chrooted, childStatus, exitStatus,
          failedAt, manifestReqs, downloads, extractLog, chrootCalls, launches>>

Init ==
  /\ pc = "MkdirTemp"
  /\ tmpRelative \in BOOLEAN
  /\ dir = ""
  /\ dirExists = FALSE
  /\ tokenResp = NoResp
  /\ token = ""
  /\ manifest = NilManifest
  /\ layerNames = <<>>
  /\ files = [f \in FileNames |-> NoFile]
  /\ tree = [p \in Paths |-> NoContent]
  /\ chrooted = FALSE
  /\ childStatus = -1
  /\ exitStatus = -1
  /\ failedAt = "none"
  /\ manifestReqs = <<>>
  /\ downloads = <<>>
  /\ extractLog = <<>>
  /\ chrootCalls = 0
  /\ launches = 0

\* handleError(err) called at a stage: os.Exit, deferred calls do not run.
Die(stage, err) ==
  /\ pc' = "exited"
  /\ exitStatus' = ExitStatusOf(handleError(err))
  /\ failedAt' = stage

\* dir, err := os.MkdirTemp("", "my-docker")
MkdirTemp ==
  /\ pc = "MkdirTemp"
  /\ \E ok \in BOOLEAN :
       IF ok
         THEN /\ dir' = "my-docker"
              /\ dirExists' = TRUE
              /\ pc' = "getToken"
              /\ UNCHANGED <<exitStatus, failedAt>>
         ELSE /\ Die("MkdirTemp", OtherErr)
              /\ UNCHANGED <<dir, dirExists>>
  /\ UNCHANGED <<tmpRelative, tokenResp, token, manifest, layerNames, files,
                 tree, chrooted, childStatus, manifestReqs, downloads,
                 extractLog, chrootCalls, launches>>

\* token, err := getToken(...)
GetToken ==
  /\ pc = "getToken"
  /\ \E resp \in TokenResponses :
       LET r == getToken(resp) IN
         /\ tokenResp' = resp
         /\ token' = r.token
         /\ IF r.err = NilErr
              THEN /\ pc' = "getManifest"
                   /\ UNCHANGED <<exitStatus, failedAt>>
              ELSE Die("getToken", r.err)
  /\ UNCHANGED <<tmpRelative, dir, dirExists, manifest, layerNames, files,
                 tree, chrooted, childStatus, manifestReqs, downloads,
                 extractLog, chrootCalls, launches>>

\* manifest, err := getManifest(image, token, tag); a nil manifest panics at
\* manifest.Layers: the deferred RemoveAll runs and the runtime exits with 2.
GetManifest ==
  /\ pc = "getManifest"
  /\ manifestReqs' = Append(manifestReqs, token)
  /\ \E resp \in ManifestResponses :
       LET r == getManifest(resp) IN
         /\ manifest' = r.manifest
         /\ IF r.err # NilErr
              THEN /\ Die("getManifest", r.err)
                   /\ UNCHANGED dirExists
              ELSE IF r.manifest.isNil
                THEN /\ pc' = "exited"
                     /\ exitStatus' = PanicExit
                     /\ dirExists' = RemoveAll(dirExists, chrooted, tmpRelative)
                     /\ UNCHANGED failedAt
                ELSE /\ pc' = NextAfterManifest(r.manifest.Layers)
                     /\ UNCHANGED <<exitStatus, failedAt, dirExists>>
  /\ UNCHANGED <<tmpRelative, dir, tokenResp, token, layerNames, files, tree,
                 chrooted, childStatus, downloads, extractLog, chrootCalls,
                 launches>>

\* One iteration of the first loop: layer, err := pullLayers(...)
PullLayers ==
  /\ pc = "pullLayers"
  /\ LET digest == manifest.Layers[Len(layerNames) + 1] IN
       /\ downloads' = Append(downloads, digest)
       /\ \E outcome \in LayerOutcomes :
            LET r == pullLayers(digest, outcome) IN
              /\ files' = saveLayerToFile(files, digest, outcome)
              /\ IF r.err = NilErr
                   THEN /\ layerNames' = Append(layerNames, r.name)
                        /\ pc' = NextAfterPull(layerNames', manifest.Layers)
                        /\ UNCHANGED <<exitStatus, failedAt>>
                   ELSE /\ Die("pullLayers", r.err)
                        /\ UNCHANGED layerNames
  /\ UNCHANGED <<tmpRelative, dir, dirExists, tokenResp, token, manifest,
                 tree, chrooted, childStatus, manifestReqs, extractLog,
                 chrootCalls, launches>>

\* One iteration of the second loop: err = extractTar(layer, dir).  A tar that
\* fails may have unpacked the archive or not.
ExtractTar ==
  /\ pc = "extractTar"
  /\ LET src == layerNames[Len(extractLog) + 1]
         body == files[src].body
     IN
       /\ extractLog' = Append(extractLog, [src |-> src, dest |-> dir, body |-> body])
       /\ \E o \in CmdOutcomes :
            LET err == extractTar(o) IN
              IF err = NilErr
                THEN /\ tree' = Untar(tree, body)
                     /\ pc' = NextAfterExtract(Len(extractLog'), layerNames)
                     /\ UNCHANGED <<exitStatus, failedAt>>
                ELSE /\ tree' \in {tree, Untar(tree, body)}
                     /\ Die("extractTar", err)
  /\ UNCHANGED <<tmpRelative, dir, dirExists, tokenResp, token, manifest,
                 layerNames, files, chrooted, childStatus, manifestReqs,
                 downloads, chrootCalls, launches>>

\* err = createFileSystem(dir)
CreateFileSystem ==
  /\ pc = "createFileSystem"
  /\ chrootCalls' = chrootCalls + 1
  /\ \E outcome \in ChrootOutcomes :
       LET err == createFileSystem(outcome) IN
         /\ chrooted' = (outcome = "ok")
         /\ IF err = NilErr
              THEN /\ pc' = "Start"
                   /\ UNCHANGED <<exitStatus, failedAt>>
              ELSE Die("createFileSystem", err)
  /\ UNCHANGED <<tmpRelative, dir, dirExists, tokenResp, token, manifest,
                 layerNames, files, tree, childStatus, manifestReqs,
                 downloads, extractLog, launches>>

\* cmd.Run, first half: the command is started in a new pid namespace, or
\* cannot be started.
Start ==
  /\ pc = "Start"
  /\ \E started \in BOOLEAN :
       IF started
         THEN /\ launches' = launches + 1
              /\ pc' = "Wait"
              /\ UNCHANGED <<exitStatus, failedAt>>
         ELSE /\ Die("Run", Run([how |-> "nostart", status |-> 0]))
              /\ UNCHANGED launches
  /\ UNCHANGED <<tmpRelative, dir, dirExists, tokenResp, token, manifest,
                 layerNames, files, tree, chrooted, childStatus, manifestReqs,
                 downloads, extractLog, chrootCalls>>

\* cmd.Run, second half: the command terminates.  A nil error lets main
\* return: the deferred RemoveAll runs and the process exits with 0.
Wait ==
  /\ pc = "Wait"
  /\ \E o \in {c \in CmdOutcomes : c.how # "nostart"} :
       LET err == Run(o) IN
         /\ childStatus' = IF o.how = "exited" THEN o.status ELSE -1
         /\ IF err = NilErr
              THEN /\ pc' = "exited"
                   /\ exitStatus' = 0
                   /\ dirExists' = RemoveAll(dirExists, chrooted, tmpRelative)
                   /\ UNCHANGED failedAt
              ELSE /\ Die("Run", err)
                   /\ UNCHANGED dirExists
  /\ UNCHANGED <<tmpRelative, dir, tokenResp, token, manifest, layerNames,
                 files, tree, chrooted, manifestReqs, downloads, extractLog,
                 chrootCalls, launches>>

Next ==
  \/ MkdirTemp
  \/ GetToken
  \/ GetManifest
  \/ PullLayers
  \/ ExtractTar
  \/ CreateFileSystem
  \/ Start
  \/ Wait

Spec == Init /\ [][Next]_vars

\* ------------------------------------------------------------- properties
Exited == pc = "exited"

PreLaunchStages ==
  {"getToken", "getManifest", "pullLayers", "extractTar", "createFileSystem"}

\* The pipeline stage of the design that a position of main belongs to.
Rank(p) ==
  CASE p = "MkdirTemp" -> 0
    [] p = "getToken" -> 0
    [] p = "getManifest" -> 1
    [] p = "pullLayers" -> 2
    [] p = "extractTar" -> 3
    [] p = "createFileSystem" -> 4
    [] p = "Start" -> 5
    [] p = "Wait" -> 6
    [] OTHER -> 7

Max(S) == CHOOSE x \in S : \A y \in S : y <= x

\* The layers of the manifest that carry path p, by position.
Writers(p) ==
  {k \in 1 .. Len(manifest.Layers) : p \in LayerPaths(HexOf(manifest.Layers[k]))}

\* Last writer wins: the content path p must have in the assembled tree.
Expected(p) ==
  IF Writers(p) = {} THEN NoContent ELSE HexOf(manifest.Layers[Max(Writers(p))])

\* Every extraction of the run has succeeded and the second loop is over.
Assembled == pc = "createFileSystem" \/ chrootCalls > 0

\* C1: once the launched command has been started and has terminated with an
\* exit status c, the process exits with exactly status c.
C1_ExitStatusPropagated ==
  (Exited /\ childStatus # -1) => exitStatus = childStatus

C1_Witness ==
  Exited /\ launches = 1 /\ childStatus = 3 /\ exitStatus = 3

\* C2: whenever a stage before the launch hands an error to handleError, the
\* process exits with status 1, whatever the kind of the error.
C2_StageFailureExitsOne ==
  (Exited /\ failedAt \in PreLaunchStages) => exitStatus = 1

\* C3: once the process has exited in a run that created the temporary
\* directory, the directory no longer exists.
C3_TempDirRemovedAtExit ==
  (Exited /\ dir # "") => ~dirExists

\* C4: when every download and extraction of an N-layer manifest has
\* succeeded, extractTar has run exactly N times onto the temporary directory,
\* the k-th time on the archive of the k-th descriptor, and every path of the
\* tree holds the content of the last layer that carries it.
C4_LayersAppliedInOrder ==
  Assembled =>
    /\ Len(extractLog) = Len(manifest.Layers)
    /\ \A k \in 1 .. Len(manifest.Layers) :
         extractLog[k] = [src |-> FileName(manifest.Layers[k]),
                          dest |-> dir,
                          body |-> HexOf(manifest.Layers[k])]
    /\ \A p \in Paths : tree[p] = Expected(p)

C4_Witness ==
  /\ Assembled
  /\ Len(manifest.Layers) = 3
  /\ \E p \in Paths : Cardinality(Writers(p)) >= 2 /\ tree[p] = Expected(p)
  /\ \E p \in Paths : Writers(p) # {} /\ Max(Writers(p)) < 3

\* C5: after a token endpoint answer with a status other than 200 the process
\* has exited with status 1 and has sent no manifest request, downloaded no
\* layer, extracted nothing, not changed root and not launched the command.
C5_TokenNon200Aborts ==
  (tokenResp.answered /\ tokenResp.status # StatusOK) =>
    /\ Exited
    /\ failedAt = "getToken"
    /\ exitStatus = 1
    /\ manifestReqs = <<>>
    /\ downloads = <<>>
    /\ extractLog = <<>>
    /\ chrootCalls = 0
    /\ launches = 0

C5_Witness ==
  tokenResp.answered /\ tokenResp.status = 401 /\ tokenResp.body = "token" /\ Exited

\* C6: the command is started only after syscall.Chroot has succeeded, a
\* failed chroot is never followed by a launch, and nothing is downloaded or
\* extracted once the root has changed.
C6_LaunchOnlyAfterChroot ==
  [][/\ (launches' > launches => chrooted)
     /\ ((chrootCalls > 0 /\ ~chrooted) => launches' = 0)
     /\ (chrooted => /\ downloads' = downloads
                     /\ extractLog' = extractLog
                     /\ files' = files
                     /\ tree' = tree)]_vars

C6_Witness ==
  launches = 1 /\ chrooted /\ Len(extractLog) >= 2

\* C7: once the process has exited, no layer archive that pullLayers created
\* is left in the working directory.
C7_ArchivesRemovedAtExit ==
  Exited => \A f \in FileNames : ~files[f].exists

\* C8: getToken succeeds only on a 200 answer whose JSON body has a token
\* member, so every manifest request carries a non-empty bearer token.
C8_TokenFieldRequired ==
  /\ (Rank(pc) >= 1 /\ failedAt # "getToken" /\ tokenResp # NoResp) =>
       (tokenResp.answered /\ tokenResp.status = StatusOK /\ tokenResp.body = "token")
  /\ \A i \in 1 .. Len(manifestReqs) : manifestReqs[i] # ""

\* C9: a run only moves forward through the stages, leaves them for good
\* once it has exited, asks for the token, the manifest and the chroot at most
\* once, and has finished every download of the manifest before the first
\* extraction starts.
C9_StagesForwardOnly ==
  [][/\ Rank(pc') >= Rank(pc)
     /\ (pc = "exited" => pc' = "exited")
     /\ Len(manifestReqs') <= 1
     /\ chrootCalls' <= 1
     /\ launches' <= 1
     /\ Len(downloads') <= Len(manifest'.Layers)
     /\ (extractLog' # <<>> =>
           /\ Len(layerNames') = Len(manifest'.Layers)
           /\ downloads' = manifest'.Layers
           /\ downloads' = downloads)]_vars

C9_Witness ==
  Exited /\ launches = 1 /\ Len(extractLog) = 3 /\ Len(downloads) = 3

\* C10: for a manifest without layers nothing is downloaded or extracted, the
\* root handed to chroot is the empty temporary directory, the chroot is
\* performed, and after a successful chroot the launch of the command is
\* attempted.
C10_ZeroLayersStillLaunch ==
  (~manifest.isNil /\ manifest.Layers = <<>>) =>
    /\ downloads = <<>>
    /\ extractLog = <<>>
    /\ \A p \in Paths : tree[p] = NoContent
    /\ \A f \in FileNames : ~files[f].exists
    /\ pc \in {"createFileSystem", "Start", "Wait", "exited"}
    /\ pc # "createFileSystem" => chrootCalls = 1
    /\ (Exited /\ chrooted) => (launches = 1 \/ failedAt = "Run")

C10_Witness ==
  /\ ~manifest.isNil
  /\ manifest.Layers = <<>>
  /\ Exited
  /\ chrooted
  /\ launches = 1
  /\ exitStatus = 0

TypeOK ==
  /\ pc \in {"MkdirTemp", "getToken", "getManifest", "pullLayers", "extractTar",
             "createFileSystem", "Start", "Wait", "exited"}
  /\ exitStatus \in -1 .. 255
  /\ Len(layerNames) <= Len(manifest.Layers)
  /\ Len(extractLog) <= Len(layerNames)
====
